---- MODULE Spec2Model ----
(***************************************************************************)
(* A model of build.py, the orchestrator that builds third-party native    *)
(* libraries one after another and assembles a release from the install    *)
(* tree.                                                                   *)
(*                                                                         *)
(* Spec        main(): option handling, the build loop, Dependency.execute *)
(*             with its stages, download_and_extract, create_release.      *)
(* SpecWorkDir the WorkDir context manager under arbitrary nesting.        *)
(* SpecCmds    Dependency._execute_cmds and the composed environment.      *)
(* SpecPatch   Dependency._apply_patch / _apply_patches over a source tree.*)
(* SpecDownload one call of download_and_extract, for any archive kind.    *)
(* SpecPkg     add_pc_lib applied again and again to a pkg-config file.    *)
(*                                                                         *)
(* External tools (curl, tar, git, make, ...) are modelled by their exit   *)
(* status, chosen nondeterministically, except `git apply`, which is       *)
(* modelled by what it does to the tree (see SpecPatch).                   *)
(***************************************************************************)
EXTENDS Integers, Sequences, FiniteSets, TLC

\* Number of registry entries the model runs (a prefix of DepTable).
NumDeps == 3

(***************************************************************************)
(* The registry.  The model keeps the last entries of main()'s dict, in    *)
(* their insertion order; artifact and header lists are abridged to two    *)
(* names each.                                                             *)
(***************************************************************************)
DepTable == << "mp3lame", "libsndfile", "ffmpeg", "icu" >>

deps == SubSeq(DepTable, 1, NumDeps)

Keys == { deps[i] : i \in 1..Len(deps) }

\* args.ONLY when --only is not given
None == << "<None>" >>

\* directories are paths, written as tuples of components
get_top == << "top" >>

ReposDir == << "top", "repos" >>

\* the directory the operator starts the script from
StartDir == << "home" >>

\* f'{get_top()}/repos/{self.get_directory()}'; every modelled descriptor's
\* directory is its key
get_directory(d) == d

SrcDir(d) == Append(ReposDir, get_directory(d))

\* Dep_mp3lame is the only descriptor that overrides download()
HasDownload(d) == d = "mp3lame"

get_artifacts(d) ==
    CASE d = "libsndfile" -> << "libsndfile.so" >>
      [] d = "ffmpeg"     -> << "libavcodec.a", "libavformat.a" >>
      [] d = "icu"        -> << "libicudata.so.67.1", "libicudata.so.67" >>
      [] OTHER            -> << >>

get_headers(d) ==
    CASE d = "ffmpeg" -> << "libavcodec", "libavformat" >>
      [] OTHER        -> << >>

\* lib.endswith('.a')
EndsWithA(lib) == lib \in { "libavcodec.a", "libavformat.a" }

\* the SONAME entry a built shared library carries
SonameOf(lib) ==
    CASE lib = "libsndfile.so"      -> "libsndfile.so.1"
      [] lib = "libicudata.so.67.1" -> "libicudata.so.67"
      [] lib = "libicudata.so.67"   -> "libicudata.so.67"
      [] OTHER                      -> lib

Range(s) == { s[i] : i \in 1..Len(s) }

Reverse(s) == [ i \in 1..Len(s) |-> s[Len(s) + 1 - i] ]

\* the keys of S as the registry lists them
InRegistryOrder(S) == SelectSeq(deps, LAMBDA d : d \in S)

\* what --only can be given (nargs='+', choices=deps.keys()): the model
\* takes every non-empty selection, listed in the registry's order or in
\* the opposite order
OnlyLists ==
    UNION { { InRegistryOrder(S), Reverse(InRegistryOrder(S)) } :
            S \in SUBSET Keys \ { {} } }

\* the descriptor a file of the install or release tree belongs to
OwnersOf(names) ==
    { d \in Keys : \E a \in Range(get_artifacts(d)) :
                       a \in names \/ SonameOf(a) \in names }

(***************************************************************************)
(* WorkDir: __enter__ saves os.getcwd() in the instance and changes into   *)
(* dir; __exit__ changes back to the saved directory.  Instances live on   *)
(* the `saved` stack, innermost last.                                      *)
(***************************************************************************)
WorkDirEnter(stack, dir_now, dir) ==
    [ saved |-> Append(stack, dir_now), cwd |-> dir ]

\* a plausible slip: __exit__ returns to the top directory main() entered
WorkDirExitToTop(stack, dir_now) ==
    [ saved |-> SubSeq(stack, 1, Len(stack) - 1), cwd |-> get_top ]

WorkDirExit(stack, dir_now) ==
    [ saved |-> SubSeq(stack, 1, Len(stack) - 1), cwd |-> stack[Len(stack)] ]

VARIABLES
    args,        \* parsed options: only (--only), clean, only_release, skip_release
    pc,          \* where main() is
    depIdx,      \* position of the build loop in the registry
    relIdx,      \* position of create_release's loop in the registry
    ret,         \* what execute() returned to main()
    cwd,         \* the process working directory
    saved,       \* WorkDir instances in use: the directory each one saved
    repos,       \* source directories that exist under repos/
    tmpfile,     \* whether download-1.<type> exists in the top directory
    installDir,  \* whether install/ exists
    libs,        \* descriptors whose artifacts and headers are in install/
    release,     \* files of the staging tree release/, as <<zone, name>>
    stripped,    \* files of release/ that strip and chrpath were run on,
                 \* each with whether both exited zero
    archive,     \* content of release-linux-x86_64.tar.gz, or NoArchive
    log,         \* stages invoked so far, with their results, in order
    output,      \* what was printed
    exitCode,    \* << >> while the process runs, then << its exit status >>
    touched,     \* descriptors whose files were read, created or changed
    start,       \* what the run found on disk: installDir, libs, release
    installs     \* the install_lib calls of the iteration create_release's
                 \* loop has just made, in order; none once the loop is over

mainVars == << args, pc, depIdx, relIdx, ret, repos, tmpfile, installDir,
               libs, release, stripped, archive, log, output, exitCode,
               touched, start, installs >>

wdVars == << cwd, saved >>

\* SpecWorkDir: `with WorkDir(...)` blocks nested in one another
VARIABLES
    entered,     \* for each open block, the working directory before it
    lastExit     \* how the last blocks were left ("normal", "return",
                 \* "raise"), and how many were left at once

\* SpecCmds: calls of Dependency._execute_cmds
VARIABLES
    environ,     \* os.environ of the orchestrator: PATH and HOME
    cmds,        \* the positional arguments of the call: the commands
    kwargs,      \* the keyword arguments: whether env is given, and env
    cmdIdx,      \* the command the loop is at
    launched,    \* commands launched by the call: command, env, exit status
    cmdRet,      \* "running", or how the call ended: "ok", "fail", "raise"
    earlier      \* the <<key, value>> pairs earlier calls gave as overrides

\* SpecPatch: calls of Dependency._apply_patch and _apply_patches
VARIABLES
    tree,        \* the source tree: the content of each line
    patches,     \* the patch list of the call
    patchIdx,    \* the patch the loop is at
    patchPc,     \* "idle", "check", "apply", "returned"
    patchRet,    \* what the call returned
    treeBefore,  \* the tree as the call started
    gitLog,      \* git commands launched by the call, with the tree
                 \* before and after each
    prevCall     \* the call completed before this one

\* SpecDownload: one call of download_and_extract
VARIABLES
    dlType,      \* the archive kind the call is given
    dlArchive,   \* the entries of the archive the url serves, as paths
    dlRet,       \* "idle", or how the call ended: "ok", "fail", "raise"
    dlExc,       \* the exception the call raised, or NoException
    srcFiles     \* the files under repos/, as paths

\* SpecPkg: calls of add_pc_lib on one pkg-config file
VARIABLES
    pkgFile,     \* the lines of the .pc file, each a sequence of pieces
    pkgLibs,     \* the library flags the calls are given
    pkgHist,     \* the file before the first call and after each call
    pkgRets      \* what each call returned

ghostVars == << entered, lastExit >>

pkgVars == << pkgFile, pkgLibs, pkgHist, pkgRets >>

dlVars == << dlType, dlArchive, dlRet, dlExc, srcFiles >>

cmdVars == << environ, cmds, kwargs, cmdIdx, launched, cmdRet, earlier >>

patchVars == << tree, patches, patchIdx, patchPc, patchRet, treeBefore,
                gitLog, prevCall >>

\* what main() never touches
auxVars == << ghostVars, cmdVars, patchVars, dlVars, pkgVars >>

vars == << mainVars, wdVars, auxVars >>

NoArchive == { << "<no archive>" >> }

NoException == "<none>"

\* what an earlier release run can have left in release/: here, the
\* runtime copy of a library that is no longer declared
StaleFiles == { << "bin/linux64", "libgone.so.1" >> }

\* a stage returns True, returns False, or raises
Outcomes == { "ok", "fail", "raise" }

\* the archive kinds download_and_extract hands to tar
TarKinds == { "tar.gz", "tar", "tar.bz2", "tgz" }

\* what curl can do: exit 0 with the file written, exit non-zero leaving a
\* partial file, exit non-zero without creating the file
CurlOutcomes == { "ok", "fail_partial", "fail_nofile" }

\* what tar or unzip can do: exit 0, exit non-zero after writing part of
\* the tree, exit non-zero before writing anything, or not be there to
\* run, in which case subprocess.run raises FileNotFoundError
ExtractOutcomes == { "ok", "fail_partial", "fail_nothing", "notfound" }

ExitStatusOf(extract) == IF extract = "ok" THEN "ok" ELSE "fail"

(***************************************************************************)
(* download_and_extract(url, type, path), called with the working          *)
(* directory `wd` and WorkDir stack `stack`; `path` is a directory name    *)
(* under repos/.  The result is what the call returned ("ok", "fail") or   *)
(* "raise", with the filesystem and working directory it leaves.           *)
(***************************************************************************)
download_and_extract(type, path, curl, extract, stack, wd, dirs, tmp) ==
    IF curl # "ok"
    THEN \* os.unlink raises FileNotFoundError when curl wrote nothing
         IF curl = "fail_partial" \/ tmp
         THEN [ ret |-> "fail", exc |-> NoException,
                repos |-> dirs, tmpfile |-> FALSE,
                cwd |-> wd, saved |-> stack, extracts |-> FALSE ]
         ELSE [ ret |-> "raise", exc |-> "FileNotFoundError",
                repos |-> dirs, tmpfile |-> FALSE,
                cwd |-> wd, saved |-> stack, extracts |-> FALSE ]
    ELSE LET in  == WorkDirEnter(stack, wd, ReposDir)
             out == WorkDirExit(in.saved, in.cwd)
             dst == Append(ReposDir, path)
         IN  IF type \in TarKinds
             THEN IF dst \in dirs
                  THEN \* os.mkdir raises FileExistsError
                       [ ret |-> "raise", exc |-> "FileExistsError",
                         repos |-> dirs, tmpfile |-> TRUE,
                         cwd |-> out.cwd, saved |-> out.saved,
                         extracts |-> FALSE ]
                  ELSE IF extract = "notfound"
                  THEN [ ret |-> "raise", exc |-> "FileNotFoundError",
                         repos |-> dirs \cup { dst },
                         tmpfile |-> TRUE,
                         cwd |-> out.cwd, saved |-> out.saved,
                         extracts |-> FALSE ]
                  ELSE [ ret |-> ExitStatusOf(extract), exc |-> NoException,
                         repos |-> dirs \cup { dst },
                         tmpfile |-> FALSE,
                         cwd |-> out.cwd, saved |-> out.saved,
                         extracts |-> TRUE ]
             ELSE IF type = "zip"
             THEN IF extract = "notfound"
                  THEN [ ret |-> "raise", exc |-> "FileNotFoundError",
                         repos |-> dirs, tmpfile |-> TRUE,
                         cwd |-> out.cwd, saved |-> out.saved,
                         extracts |-> FALSE ]
                  ELSE \* unzip creates the directory as it extracts into it
                       [ ret |-> ExitStatusOf(extract), exc |-> NoException,
                         repos |-> IF extract = "fail_nothing" THEN dirs
                                   ELSE dirs \cup { dst },
                         tmpfile |-> FALSE,
                         cwd |-> out.cwd, saved |-> out.saved,
                         extracts |-> TRUE ]
             ELSE \* assert False
                  [ ret |-> "raise", exc |-> "AssertionError",
                    repos |-> dirs, tmpfile |-> TRUE,
                    cwd |-> out.cwd, saved |-> out.saved,
                    extracts |-> FALSE ]

\* where the extractor puts archive entry e, a path, under directory dst:
\* tar --strip-components=1 -C path drops the first component, and skips
\* an entry that has no other; unzip -d path keeps the entry's path
Extracted(type, dst, entries) ==
    IF type \in TarKinds
    THEN { dst \o Tail(e) : e \in { x \in entries : Len(x) > 1 } }
    ELSE { dst \o e : e \in entries }

\* Dependency.download: unsupported unless the descriptor overrides it;
\* Dep_mp3lame.download fetches a tar.gz into repos/mp3lame
download(d, curl, extract, stack, wd, dirs, tmp) ==
    IF HasDownload(d)
    THEN download_and_extract("tar.gz", "mp3lame", curl, extract,
                              stack, wd, dirs, tmp)
    ELSE [ ret |-> "fail", exc |-> NoException,
           repos |-> dirs, tmpfile |-> tmp,
           cwd |-> wd, saved |-> stack, extracts |-> FALSE ]

(***************************************************************************)
(* main()                                                                  *)
(***************************************************************************)
\* a plausible slip: the loop walks the keys in the order --only lists them
DepInListedOrder ==
    IF args.only # None /\ depIdx <= Len(args.only)
    THEN args.only[depIdx] ELSE deps[depIdx]

\* `for dep in deps`: the key the build loop is at
Dep == deps[depIdx]

Logged(stage, res) == Append(log, [ dep |-> Dep, stage |-> stage, res |-> res ])

\* an uncaught exception: the interpreter prints a traceback and exits 1
Crash ==
    /\ pc' = "done"
    /\ exitCode' = << 1 >>
    /\ output' = Append(output, << "Traceback" >>)

\* the values of the variables a specification does not use
GhostIdle == entered = << >> /\ lastExit = << "none", 0 >>

NoCall == [ patches |-> << >>, before |-> << >>, after |-> << >>, ret |-> FALSE ]

CmdIdle ==
    /\ environ = [ PATH |-> "/usr/bin", HOME |-> "/root" ]
    /\ cmds = << >>
    /\ kwargs = [ hasEnv |-> FALSE, env |-> << >> ]
    /\ cmdIdx = 1
    /\ launched = << >>
    /\ cmdRet = "idle"
    /\ earlier = {}

PatchIdle ==
    /\ tree = << >>
    /\ patches = << >>
    /\ patchIdx = 1
    /\ patchPc = "idle"
    /\ patchRet = FALSE
    /\ treeBefore = << >>
    /\ gitLog = << >>
    /\ prevCall = NoCall

DlIdle ==
    /\ dlType = "tar.gz"
    /\ dlArchive = {}
    /\ dlRet = "idle"
    /\ dlExc = NoException
    /\ srcFiles = {}

PkgIdle ==
    /\ pkgFile = << >>
    /\ pkgLibs = << >>
    /\ pkgHist = << >>
    /\ pkgRets = << >>

\* main() not started
RunIdle ==
    /\ args = [ only |-> None, clean |-> FALSE, only_release |-> FALSE,
                skip_release |-> FALSE ]
    /\ pc = "idle"
    /\ depIdx = 1
    /\ relIdx = 1
    /\ ret = TRUE
    /\ installDir = FALSE
    /\ libs = {}
    /\ release = {}
    /\ stripped = {}
    /\ archive = NoArchive
    /\ log = << >>
    /\ output = << >>
    /\ exitCode = << >>
    /\ touched = {}
    /\ start = [ installDir |-> FALSE, libs |-> {}, release |-> {} ]
    /\ installs = << >>

MainIdle == RunIdle /\ repos = {} /\ tmpfile = FALSE

TypeArgs ==
    [ only : { None } \cup OnlyLists,
      clean : BOOLEAN, only_release : BOOLEAN, skip_release : BOOLEAN ]

\* the source directories a run can find under repos/: the model takes the
\* checkouts of the descriptors that cannot download all there or all
\* missing, with or without the directory of the one that can
ReposChoices ==
    LET fixed == { SrcDir(d) : d \in { k \in Keys : ~HasDownload(k) } }
    IN  { S \in SUBSET { SrcDir(d) : d \in Keys } :
            S \cap fixed = {} \/ fixed \subseteq S }

\* the descriptors a run can find installed: none, all, or all but one
LibsChoices == { {}, Keys } \cup { Keys \ { d } : d \in Keys }

Init ==
    /\ args \in TypeArgs
    /\ pc = "main"
    /\ depIdx = 1
    /\ relIdx = 1
    /\ ret = TRUE
    /\ cwd = StartDir
    /\ saved = << >>
    /\ repos \in ReposChoices
    /\ tmpfile = FALSE
    /\ installDir \in BOOLEAN
    /\ libs \in LibsChoices
    /\ (libs # {} => installDir)
    /\ release \in { {}, StaleFiles }
    /\ stripped = {}
    /\ archive = NoArchive
    /\ log = << >>
    /\ output = << >>
    /\ exitCode = << >>
    /\ touched = {}
    /\ start = [ installDir |-> installDir, libs |-> libs, release |-> release ]
    /\ installs = << >>
    /\ GhostIdle
    /\ CmdIdle
    /\ PatchIdle
    /\ DlIdle
    /\ PkgIdle

\* a plausible slip: --only-release is not looked at before the build loop
MainIgnoresOnlyRelease ==
    /\ pc = "main"
    /\ cwd' = get_top
    /\ IF args.clean
       THEN /\ Crash
            /\ UNCHANGED installDir
       ELSE /\ pc' = "loop"
            /\ installDir' = TRUE
            /\ output' = Append(output, << "ONLY", args.only >>)
            /\ UNCHANGED exitCode
    /\ UNCHANGED << auxVars, start, installs >>
    /\ UNCHANGED << args, depIdx, relIdx, ret, saved, repos, tmpfile, libs,
                    release, stripped, archive, log, touched >>

\* lines 1066-1085: chdir to the top, then --clean, --only-release, or the
\* creation of install/ before the build loop
Main ==
    /\ pc = "main"
    /\ cwd' = get_top
    /\ IF args.clean
       THEN \* os.remove() of a directory, or of a missing path, raises
            /\ Crash
            /\ UNCHANGED installDir
       ELSE IF args.only_release
       THEN /\ pc' = "create_release"
            /\ UNCHANGED << installDir, output, exitCode >>
       ELSE /\ pc' = "loop"
            /\ installDir' = TRUE
            /\ output' = Append(output, << "ONLY", args.only >>)
            /\ UNCHANGED exitCode
    /\ UNCHANGED << auxVars, start, installs >>
    /\ UNCHANGED << args, depIdx, relIdx, ret, saved, repos, tmpfile, libs,
                    release, stripped, archive, log, touched >>

\* a plausible slip: the loop does not skip the descriptors --only left out
LoopIgnoresOnly ==
    /\ pc = "loop"
    /\ IF depIdx > Len(deps)
       THEN /\ output' = Append(output, << "Finished building all dependencies" >>)
            /\ IF args.skip_release
               THEN pc' = "done" /\ exitCode' = << 0 >>
               ELSE pc' = "create_release" /\ UNCHANGED exitCode
            /\ UNCHANGED depIdx
       ELSE /\ pc' = "execute"
            /\ output' = Append(output, << "Building", Dep >>)
            /\ UNCHANGED << depIdx, exitCode >>
    /\ UNCHANGED << auxVars, start, installs >>
    /\ UNCHANGED << args, relIdx, ret, cwd, saved, repos, tmpfile, installDir,
                    libs, release, stripped, archive, log, touched >>

\* a plausible slip: --skip-release is not looked at after the loop
LoopAlwaysReleases ==
    /\ pc = "loop"
    /\ IF depIdx > Len(deps)
       THEN /\ output' = Append(output, << "Finished building all dependencies" >>)
            /\ pc' = "create_release"
            /\ UNCHANGED << depIdx, exitCode >>
       ELSE IF args.only # None /\ Dep \notin Range(args.only)
       THEN /\ depIdx' = depIdx + 1
            /\ UNCHANGED << pc, output, exitCode >>
       ELSE /\ pc' = "execute"
            /\ output' = Append(output, << "Building", Dep >>)
            /\ UNCHANGED << depIdx, exitCode >>
    /\ UNCHANGED << auxVars, start, installs >>
    /\ UNCHANGED << args, relIdx, ret, cwd, saved, repos, tmpfile, installDir,
                    libs, release, stripped, archive, log, touched >>

\* lines 1089-1099: the head of the build loop and what follows the loop
Loop ==
    /\ pc = "loop"
    /\ IF depIdx > Len(deps)
       THEN /\ output' = Append(output, << "Finished building all dependencies" >>)
            /\ IF args.skip_release
               THEN pc' = "done" /\ exitCode' = << 0 >>
               ELSE pc' = "create_release" /\ UNCHANGED exitCode
            /\ UNCHANGED depIdx
       ELSE IF args.only # None /\ Dep \notin Range(args.only)
       THEN /\ depIdx' = depIdx + 1
            /\ UNCHANGED << pc, output, exitCode >>
       ELSE /\ pc' = "execute"
            /\ output' = Append(output, << "Building", Dep >>)
            /\ UNCHANGED << depIdx, exitCode >>
    /\ UNCHANGED << auxVars, start, installs >>
    /\ UNCHANGED << args, relIdx, ret, cwd, saved, repos, tmpfile, installDir,
                    libs, release, stripped, archive, log, touched >>

\* a plausible slip: the test of os.path.exists(dir) is inverted
ExecuteInverted ==
    /\ pc = "execute"
    /\ IF SrcDir(Dep) \in repos
       THEN /\ pc' = "download"
            /\ UNCHANGED << cwd, saved >>
       ELSE LET in == WorkDirEnter(saved, cwd, SrcDir(Dep))
            IN  /\ pc' = "apply_patches"
                /\ cwd' = in.cwd
                /\ saved' = in.saved
    /\ UNCHANGED << auxVars, start, installs >>
    /\ UNCHANGED << args, depIdx, relIdx, ret, repos, tmpfile, installDir,
                    libs, release, stripped, archive, log, output, exitCode,
                    touched >>

\* lines 195-201: execute() up to the entry into the source directory
Execute ==
    /\ pc = "execute"
    /\ IF SrcDir(Dep) \notin repos
       THEN /\ pc' = "download"
            /\ UNCHANGED << cwd, saved >>
       ELSE LET in == WorkDirEnter(saved, cwd, SrcDir(Dep))
            IN  /\ pc' = "apply_patches"
                /\ cwd' = in.cwd
                /\ saved' = in.saved
    /\ UNCHANGED << auxVars, start, installs >>
    /\ UNCHANGED << args, depIdx, relIdx, ret, repos, tmpfile, installDir,
                    libs, release, stripped, archive, log, output, exitCode,
                    touched >>

\* lines 197-201: download() and the branch on its result
Download ==
    /\ pc = "download"
    /\ \E curl \in CurlOutcomes, extract \in ExtractOutcomes :
         LET r == download(Dep, curl, extract, saved, cwd, repos, tmpfile)
         IN  /\ repos' = r.repos
             /\ tmpfile' = r.tmpfile
             /\ log' = Logged("download", r.ret)
             /\ touched' = IF HasDownload(Dep) THEN touched \cup { Dep }
                           ELSE touched
             /\ CASE r.ret = "ok" ->
                       \* with WorkDir(dir): the directory now exists
                       LET in == WorkDirEnter(r.saved, r.cwd, SrcDir(Dep))
                       IN  /\ pc' = "apply_patches"
                           /\ cwd' = in.cwd
                           /\ saved' = in.saved
                           /\ UNCHANGED << ret, output, exitCode >>
                  [] r.ret = "fail" ->
                       /\ pc' = "returned"
                       /\ ret' = FALSE
                       /\ cwd' = r.cwd
                       /\ saved' = r.saved
                       /\ output' = Append(output, << "Download failed!" >>)
                       /\ UNCHANGED exitCode
                  [] r.ret = "raise" ->
                       /\ Crash
                       /\ cwd' = r.cwd
                       /\ saved' = r.saved
                       /\ UNCHANGED ret
    /\ UNCHANGED << auxVars, start, installs >>
    /\ UNCHANGED << args, depIdx, relIdx, installDir, libs, release, stripped,
                    archive >>

\* a plausible slip: the result of a stage is not looked at
AfterStageUnchecked(res, next) == next

\* lines 202-211: where execute() goes after a stage returned `res`; `next`
\* is the stage that follows, "returned" after the last one
AfterStage(res, next) == IF res = "ok" THEN next ELSE "returned"

\* lines 201-211: one stage inside `with WorkDir(dir)`.  Leaving the block,
\* by return or by exception, runs WorkDir.__exit__.
Stage(stage, msg, next) ==
    /\ pc = stage
    /\ \E res \in Outcomes :
         /\ log' = Logged(stage, res)
         /\ touched' = touched \cup { Dep }
         /\ libs' = IF stage = "build" /\ res = "ok" THEN libs \cup { Dep }
                    ELSE libs
         /\ IF res = "raise"
            THEN LET out == WorkDirExit(saved, cwd)
                 IN  /\ Crash
                     /\ cwd' = out.cwd
                     /\ saved' = out.saved
                     /\ UNCHANGED ret
            ELSE IF AfterStage(res, next) = "returned"
            THEN LET out == WorkDirExit(saved, cwd)
                 IN  /\ pc' = "returned"
                     /\ ret' = (res = "ok")
                     /\ cwd' = out.cwd
                     /\ saved' = out.saved
                     /\ output' = IF res = "ok" THEN output
                                  ELSE Append(output, << msg >>)
                     /\ UNCHANGED exitCode
            ELSE /\ pc' = AfterStage(res, next)
                 /\ UNCHANGED << ret, cwd, saved, output, exitCode >>
    /\ UNCHANGED << auxVars, start, installs >>
    /\ UNCHANGED << args, depIdx, relIdx, repos, tmpfile, installDir, release,
                    stripped, archive >>

ApplyPatches == Stage("apply_patches", "Failed to apply patches", "configure")

Configure == Stage("configure", "Configure failed!", "build")

Build == Stage("build", "Build failed!", "returned")

\* a plausible slip: the loop goes on to the next descriptor after a failure
ReturnedKeepsGoing ==
    /\ pc = "returned"
    /\ log' = Logged("execute", IF ret THEN "ok" ELSE "fail")
    /\ pc' = "loop"
    /\ depIdx' = depIdx + 1
    /\ output' = IF ret THEN output
                 ELSE Append(output, << "Build failed for", Dep >>)
    /\ UNCHANGED << auxVars, start, installs >>
    /\ UNCHANGED << args, relIdx, ret, cwd, saved, repos, tmpfile, installDir,
                    libs, release, stripped, archive, exitCode, touched >>

\* a plausible slip: a failed build is reported, and the release is
\* assembled all the same
ReturnedReleasesAnyway ==
    /\ pc = "returned"
    /\ log' = Logged("execute", IF ret THEN "ok" ELSE "fail")
    /\ IF ret
       THEN /\ pc' = "loop"
            /\ depIdx' = depIdx + 1
            /\ UNCHANGED << output, exitCode >>
       ELSE /\ pc' = "create_release"
            /\ output' = Append(output, << "Build failed for", Dep >>)
            /\ UNCHANGED << depIdx, exitCode >>
    /\ UNCHANGED << auxVars, start, installs >>
    /\ UNCHANGED << args, relIdx, ret, cwd, saved, repos, tmpfile, installDir,
                    libs, release, stripped, archive, touched >>

\* lines 1093-1095: main() looks at what execute() returned
Returned ==
    /\ pc = "returned"
    /\ log' = Logged("execute", IF ret THEN "ok" ELSE "fail")
    /\ IF ret
       THEN /\ pc' = "loop"
            /\ depIdx' = depIdx + 1
            /\ UNCHANGED << output, exitCode >>
       ELSE /\ pc' = "done"
            /\ exitCode' = << 1 >>
            /\ output' = Append(output, << "Build failed for", Dep >>)
            /\ UNCHANGED depIdx
    /\ UNCHANGED << auxVars, start, installs >>
    /\ UNCHANGED << args, relIdx, ret, cwd, saved, repos, tmpfile, installDir,
                    libs, release, stripped, archive, touched >>

(***************************************************************************)
(* create_release                                                          *)
(***************************************************************************)
\* files of install/lib, given the descriptors whose build installed
LibFiles(built) ==
    UNION { Range(get_artifacts(d)) \cup
            { SonameOf(a) : a \in Range(get_artifacts(d)) } : d \in built }

\* directories of install/include
IncDirs(built) == UNION { Range(get_headers(d)) : d \in built }

\* what running readelf -d install/lib/<lib> can come to: exit 0 with a
\* SONAME entry in the output, exit 0 without one, a non-zero exit (no
\* such file, not an ELF object, ...), or no readelf to run, in which
\* case subprocess.run raises FileNotFoundError
ReadelfAll == { "soname", "nosoname", "nonzero", "notfound" }

ReadelfOutcomes(lib, files) ==
    IF lib \notin files THEN { "nonzero", "notfound" }
    ELSE IF EndsWithA(lib) THEN { "nosoname", "nonzero", "notfound" }
    ELSE ReadelfAll

\* get_soname: the SONAME entry, or None (here: the empty tuple); the
\* exception of subprocess.run is not caught
get_soname(lib, readelf) ==
    [ raised |-> readelf = "notfound",
      soname |-> IF readelf = "soname" THEN << SonameOf(lib) >> ELSE << >> ]

\* install_lib(lib) on staging tree `rel`; shutil.copy raises when its
\* source is missing.  `call` records what the call did: the outcome of
\* readelf, the name copied into release/bin/linux64 (if any), whether
\* the declared name was copied into release/lib/external/linux64.
install_lib(lib, readelf, files, rel) ==
    LET found  == get_soname(lib, readelf)
        soname == IF found.soname = << >> THEN lib ELSE found.soname[1]
        rel1   == IF EndsWithA(lib) THEN rel
                  ELSE rel \cup { << "bin/linux64", soname >> }
        Call(bin, inLib, raised) ==
            [ lib |-> lib, readelf |-> readelf, bin |-> bin,
              inLib |-> inLib, raised |-> raised ]
    IN  IF found.raised
        THEN [ release |-> rel, raised |-> TRUE,
               call |-> Call(<< >>, FALSE, TRUE) ]
        ELSE IF ~EndsWithA(lib) /\ soname \notin files
        THEN [ release |-> rel, raised |-> TRUE,
               call |-> Call(<< >>, FALSE, TRUE) ]
        ELSE IF lib \notin files
        THEN [ release |-> rel1, raised |-> TRUE,
               call |-> Call(IF EndsWithA(lib) THEN << >> ELSE << soname >>,
                             FALSE, TRUE) ]
        ELSE [ release |-> rel1 \cup { << "lib/external/linux64", lib >> },
               raised |-> FALSE,
               call |-> Call(IF EndsWithA(lib) THEN << >> ELSE << soname >>,
                             TRUE, FALSE) ]

\* lines 1000-1002: for a in artifacts: install_lib(a), from index n on
RECURSIVE InstallArtifacts(_, _, _, _, _, _)
InstallArtifacts(arts, ro, n, files, rel, calls) ==
    IF n > Len(arts) THEN [ release |-> rel, raised |-> FALSE, calls |-> calls ]
    ELSE LET r == install_lib(arts[n], ro[n], files, rel)
         IN  IF r.raised
             THEN [ release |-> r.release, raised |-> TRUE,
                    calls |-> Append(calls, r.call) ]
             ELSE InstallArtifacts(arts, ro, n + 1, files, r.release,
                                   Append(calls, r.call))

\* lines 1004-1006: for h in headers: install_headers(h, ...), from n on;
\* shutil.copytree raises when the source directory is missing
RECURSIVE InstallHeaders(_, _, _, _)
InstallHeaders(hdrs, n, incs, rel) ==
    IF n > Len(hdrs) THEN [ release |-> rel, raised |-> FALSE ]
    ELSE IF hdrs[n] \notin incs THEN [ release |-> rel, raised |-> TRUE ]
    ELSE InstallHeaders(hdrs, n + 1, incs,
                        rel \cup { << "include", hdrs[n] >> })

\* glob 'release/**/*.so*'
IsSharedLib(file) ==
    \/ file \in StaleFiles
    \/ \E d \in Keys : \E a \in Range(get_artifacts(d)) :
          ~EndsWithA(a) /\ file[2] \in { a, SonameOf(a) }

\* lines 993-996: the three mkdir_p calls
CreateRelease ==
    /\ pc = "create_release"
    /\ pc' = "install"
    /\ relIdx' = 1
    /\ log' = Append(log, [ dep |-> "*", stage |-> "create_release",
                            res |-> "ok" ])
    /\ UNCHANGED << auxVars, start, installs >>
    /\ UNCHANGED << args, depIdx, ret, cwd, saved, repos, tmpfile, installDir,
                    libs, release, stripped, archive, output, exitCode,
                    touched >>

\* lines 998-1006: one iteration of `for d in deps`
InstallDep ==
    /\ pc = "install"
    /\ relIdx <= Len(deps)
    /\ LET d    == deps[relIdx]
           arts == get_artifacts(d)
           hdrs == get_headers(d)
       IN  \E ro \in [ 1..Len(arts) -> ReadelfAll ] :
             /\ \A n \in 1..Len(arts) :
                    ro[n] \in ReadelfOutcomes(arts[n], LibFiles(libs))
             /\ LET a == InstallArtifacts(arts, ro, 1, LibFiles(libs), release,
                                         << >>)
                    h == IF a.raised THEN a
                         ELSE InstallHeaders(hdrs, 1, IncDirs(libs), a.release)
                IN  /\ release' = h.release
                    /\ installs' = a.calls
                    /\ touched' = IF d \in libs /\ (arts # << >> \/ hdrs # << >>)
                                  THEN touched \cup { d } ELSE touched
                    /\ IF h.raised
                       THEN Crash /\ UNCHANGED relIdx
                       ELSE /\ relIdx' = relIdx + 1
                            /\ UNCHANGED << pc, output, exitCode >>
    /\ UNCHANGED << auxVars, start >>
    /\ UNCHANGED << args, depIdx, ret, cwd, saved, repos, tmpfile, installDir,
                    libs, stripped, archive, log >>

\* what strip and chrpath can do on the files found: not be there to run,
\* in which case the first subprocess.run raises; or run on every file,
\* exiting zero on all of them or non-zero on one of them
StripRuns(found) ==
    { [ notfound |-> FALSE, failed |-> {} ] }
    \cup { [ notfound |-> FALSE, failed |-> { f } ] : f \in found }
    \cup { [ notfound |-> TRUE, failed |-> {} ] : f \in found }

\* lines 1008-1014: strip -x and chrpath -d on every shared library found;
\* their exit statuses are not looked at
Strip ==
    /\ pc = "install"
    /\ relIdx > Len(deps)
    /\ LET found == { f \in release : IsSharedLib(f) }
       IN  \E run \in StripRuns(found) :
             IF run.notfound
             THEN Crash /\ UNCHANGED << stripped, touched >>
             ELSE /\ pc' = "archive"
                  /\ stripped' = stripped \cup
                                  { [ file |-> f, ok |-> f \notin run.failed ] :
                                      f \in found }
                  /\ touched' = touched \cup OwnersOf({ f[2] : f \in found })
                  /\ UNCHANGED << output, exitCode >>
    /\ installs' = << >>
    /\ UNCHANGED << auxVars, start >>
    /\ UNCHANGED << args, depIdx, relIdx, ret, cwd, saved, repos, tmpfile,
                    installDir, libs, release, archive, log >>

\* lines 1016-1018: shutil.make_archive; main() then ends, or calls exit(0)
Archive ==
    /\ pc = "archive"
    /\ archive' = release
    /\ output' = Append(output, << "Created", "release-linux-x86_64.tar.gz" >>)
    /\ pc' = "done"
    /\ exitCode' = << 0 >>
    /\ UNCHANGED << auxVars, start, installs >>
    /\ UNCHANGED << args, depIdx, relIdx, ret, cwd, saved, repos, tmpfile,
                    installDir, libs, release, stripped, log, touched >>

Next ==
    \/ Main
    \/ Loop
    \/ Execute
    \/ Download
    \/ ApplyPatches
    \/ Configure
    \/ Build
    \/ Returned
    \/ CreateRelease
    \/ InstallDep
    \/ Strip
    \/ Archive

Spec == Init /\ [][Next]_vars

(***************************************************************************)
(* Properties of main() and Dependency.execute (specification Spec)        *)
(***************************************************************************)
IndexOf(d) == CHOOSE n \in 1..Len(deps) : deps[n] = d

StageNames == { "download", "apply_patches", "configure", "build" }

IsEntry(n, d, stage, res) ==
    /\ n \in 1..Len(log)
    /\ log[n] = [ dep |-> d, stage |-> stage, res |-> res ]

\* C1: once execute() of a descriptor has returned failure, nothing further
\* is invoked: the failing return is the last thing the run did, no stage
\* of a later registry entry was run, no release was assembled (no
\* create_release call, no staged file, no archive), and the process has
\* not exited with status 0: it ends with status 1.
FailFast ==
    /\ (pc = "returned" /\ ~ret) => exitCode = << >>
    /\ \A n \in 1..Len(log) :
         (log[n].stage = "execute" /\ log[n].res = "fail") =>
            /\ n = Len(log)
            /\ pc = "done" /\ exitCode = << 1 >>
            /\ \A m \in 1..Len(log) :
                 /\ log[m].stage # "create_release"
                 /\ IndexOf(log[m].dep) <= IndexOf(log[n].dep)
            /\ release = start.release /\ archive = NoArchive

\* C1 witness: a descriptor failed while a later, selected one was waiting
FailFastWitness ==
    /\ pc = "done"
    /\ args.only = None
    /\ depIdx < Len(deps)
    /\ IsEntry(Len(log), Dep, "execute", "fail")
    /\ IsEntry(Len(log) - 1, Dep, "build", "fail")

\* C2: in one execute() call the stages run in the order apply_patches,
\* configure, build, each only right after the one before it returned
\* success, and execute() returns success exactly when all three did (and
\* the download before them, when there was one).
StageOrder ==
    \A n \in 1..Len(log) :
      LET e == log[n] IN
        /\ e.stage = "apply_patches" =>
              \/ n = 1
              \/ log[n - 1].stage = "execute" /\ log[n - 1].dep # e.dep
              \/ IsEntry(n - 1, e.dep, "download", "ok")
        /\ e.stage = "configure" => IsEntry(n - 1, e.dep, "apply_patches", "ok")
        /\ e.stage = "build" => IsEntry(n - 1, e.dep, "configure", "ok")
        /\ e.stage = "execute" =>
              /\ n > 1 /\ log[n - 1].dep = e.dep
              /\ log[n - 1].stage \in StageNames
              /\ (e.res = "ok") <=>
                    /\ IsEntry(n - 1, e.dep, "build", "ok")
                    /\ IsEntry(n - 2, e.dep, "configure", "ok")
                    /\ IsEntry(n - 3, e.dep, "apply_patches", "ok")
              /\ (e.res = "fail") <=> (log[n - 1].res = "fail")
        /\ (e.stage \in StageNames /\ e.res = "ok" /\ e.stage # "build") =>
              (n < Len(log) => log[n + 1].dep = e.dep
                               /\ log[n + 1].stage \in StageNames)
        /\ (e.stage = "build" /\ e.res = "ok" /\ n < Len(log)) =>
              IsEntry(n + 1, e.dep, "execute", "ok")

\* C2 witness: one descriptor went through all three stages and returned
\* success, the next one stopped at a failing configure
StageOrderWitness ==
    /\ Len(log) >= 4
    /\ depIdx <= Len(deps)
    /\ \E n \in 1..Len(log) : log[n].stage = "execute" /\ log[n].res = "ok"
    /\ IsEntry(Len(log), Dep, "execute", "fail")
    /\ IsEntry(Len(log) - 1, Dep, "configure", "fail")

\* what a failed download() leaves: execute() returns False at once
DownloadFailureStops ==
    \A n \in 1..Len(log) :
      log[n].stage = "download" =>
        /\ ~HasDownload(log[n].dep) => log[n].res = "fail"
        /\ log[n].res = "fail" =>
              \/ n = Len(log) /\ pc = "returned" /\ ~ret
              \/ n + 1 = Len(log) /\ IsEntry(n + 1, log[n].dep, "execute", "fail")

\* the steps of execute() around download()
DownloadStep ==
    /\ pc = "execute" =>
          IF SrcDir(Dep) \notin repos
          THEN pc' = "download" /\ log' = log
          ELSE pc' = "apply_patches" /\ log' = log
    /\ (pc # "download" /\ pc' = "download") => pc = "execute"
    /\ (Len(log') > Len(log) /\ log'[Len(log')].stage = "download") =>
          pc = "download"
    /\ pc = "download" =>
          /\ Len(log') = Len(log) + 1
          /\ log'[Len(log')].stage = "download"
          /\ log'[Len(log')].res # "ok" =>
                /\ cwd' = cwd
                /\ saved' = saved
                /\ pc' \in { "returned", "done" }
          /\ log'[Len(log')].res = "fail" => pc' = "returned" /\ ~ret'

\* C3: execute() calls download() exactly when the source directory does
\* not exist as the call starts; the default download() returns failure;
\* and when download() returns failure, execute() returns failure with no
\* stage invoked and the working directory as it was.
DownloadWhenAbsent == []DownloadFailureStops /\ [][DownloadStep]_vars

\* C3 witness: the archive was fetched, its extraction failed, and
\* execute() is returning failure from the directory it was called in
DownloadWhenAbsentWitness ==
    /\ pc = "returned" /\ ~ret
    /\ IsEntry(Len(log), Dep, "download", "fail")
    /\ SrcDir(Dep) \in repos
    /\ cwd = get_top /\ saved = << >>

\* C10 as stated: with --only, over the build loop and the release
\* assembly that follows it, only selected descriptors have stages run
\* and only their files are touched
SelectiveBuildWholeRun ==
    (args.only # None /\ ~args.only_release) =>
        /\ \A n \in 1..Len(log) :
             log[n].stage # "create_release" => log[n].dep \in Range(args.only)
        /\ touched \subseteq Range(args.only)

\* C10, amended: with --only, every stage that runs is a stage of a
\* selected descriptor, and files of an unselected descriptor are touched
\* by create_release alone, which installs every registry descriptor's
\* artifacts and headers whether it was selected or not.
SelectiveBuildLoop ==
    args.only # None =>
        /\ \A n \in 1..Len(log) :
             log[n].stage # "create_release" => log[n].dep \in Range(args.only)
        /\ (touched \subseteq Range(args.only)
            \/ \E n \in 1..Len(log) : log[n].stage = "create_release")
        /\ (pc \in { "archive" } /\ ~args.only_release) =>
              \A d \in libs : get_artifacts(d) # << >> => d \in touched

\* C10 witness: a run of a proper subset that built its descriptors,
\* skipped one that was not selected, and assembled the release
SelectiveBuildLoopWitness ==
    /\ pc = "done" /\ exitCode = << 0 >>
    /\ args.only # None /\ Range(args.only) # Keys
    /\ ~args.only_release /\ ~args.skip_release
    /\ \E n \in 1..Len(log) : log[n].stage = "execute"
    /\ touched \ Range(args.only) # {}

\* the entries of the log that belong to one descriptor
IsDepEntry(n) == log[n].stage # "create_release"

\* C11: descriptors execute one after another in the registry's order,
\* however --only lists them: whatever ran earlier belongs to the same or
\* to an earlier registry entry, once execute() of a descriptor returned
\* only later registry entries run, and no stage and no execute() of a
\* descriptor happens twice in a run.
SequentialInRegistryOrder ==
    \A n, m \in 1..Len(log) :
      (n < m /\ IsDepEntry(n) /\ IsDepEntry(m)) =>
        /\ IndexOf(log[n].dep) <= IndexOf(log[m].dep)
        /\ log[n].stage = "execute" =>
              IndexOf(log[n].dep) < IndexOf(log[m].dep)
        /\ log[n].dep = log[m].dep => log[n].stage # log[m].stage

\* C11 witness: --only listed a later registry entry before an earlier
\* one, and execute() of both has returned
SequentialInRegistryOrderWitness ==
    /\ args.only # None
    /\ Len(args.only) >= 2
    /\ IndexOf(args.only[1]) > IndexOf(args.only[2])
    /\ \A k \in 1..2 : \E n \in 1..Len(log) :
          log[n].stage = "execute" /\ log[n].dep = args.only[k]

\* create_release was invoked, as entry n of the log
ReleaseStartedAt(n) == n \in 1..Len(log) /\ log[n].stage = "create_release"

\* execute() of descriptor d returned success before entry n of the log
SucceededBefore(d, n) == \E m \in 1..(n - 1) : IsEntry(m, d, "execute", "ok")

\* C12 as stated: whenever a release is assembled, execute() of every
\* registry descriptor has returned success before, in the same run
ReleaseAfterAllSucceed ==
    \A n \in 1..Len(log) :
      ReleaseStartedAt(n) => \A d \in Keys : SucceededBefore(d, n)

\* the descriptors the build loop executes
Selected == IF args.only = None THEN Keys ELSE Range(args.only)

\* C12, amended: create_release is invoked at most once, and only after
\* the build loop went through the registry with execute() of every
\* selected descriptor (all of them when --only is not given) returning
\* success and no other descriptor executed; in release-only mode it is
\* invoked with no descriptor executed at all.
ReleaseAfterSelectedSucceed ==
    \A n \in 1..Len(log) :
      ReleaseStartedAt(n) =>
        /\ \A m \in 1..Len(log) : ReleaseStartedAt(m) => m = n
        /\ \A m \in 1..Len(log) : log[m].res = "ok"
        /\ IF args.only_release
           THEN n = 1
           ELSE /\ \A d \in Selected : SucceededBefore(d, n)
                /\ \A m \in 1..(n - 1) : log[m].dep \in Selected
                /\ ~args.skip_release

\* C12 witness: every registry descriptor was built and the release was
\* assembled after the last of them
ReleaseAfterSelectedSucceedWitness ==
    /\ args.only = None /\ ~args.only_release
    /\ ReleaseStartedAt(Len(log))
    /\ \A d \in Keys : SucceededBefore(d, Len(log))
    /\ archive # NoArchive

\* the calls of install_lib the latest iteration of create_release's loop made
InstallCalls == { installs[n] : n \in 1..Len(installs) }

\* C13: for a declared dynamic library that was built, install_lib copies
\* into release/bin/linux64 the file named by the SONAME when readelf
\* reports one; when readelf reports none, exits non-zero or cannot be
\* run, it copies the file under its declared name and does not raise.
SonameResolution ==
    \A c \in InstallCalls :
      (~EndsWithA(c.lib) /\ c.lib \in LibFiles(libs)) =>
        IF c.readelf = "soname"
        THEN /\ c.bin = << SonameOf(c.lib) >>
             /\ << "bin/linux64", SonameOf(c.lib) >> \in release
        ELSE /\ c.bin = << c.lib >>
             /\ << "bin/linux64", c.lib >> \in release
             /\ ~c.raised

\* C14: a static artifact (.a) is copied into release/lib/external/linux64
\* under its declared name, never into release/bin/linux64, and readelf is
\* not run on it; once create_release's loop is over, every declared
\* artifact is in release/lib/external/linux64 under its declared name.
StaticVerbatim ==
    /\ \A c \in InstallCalls :
          EndsWithA(c.lib) =>
            /\ c.bin = << >>
            /\ c.readelf = "not run"
            /\ ~c.raised => << "lib/external/linux64", c.lib >> \in release
    /\ \A f \in release : f[1] = "bin/linux64" => ~EndsWithA(f[2])
    /\ pc = "archive" =>
          \A d \in Keys : \A a \in Range(get_artifacts(d)) :
              << "lib/external/linux64", a >> \in release

\* C17: a --clean run that found an install directory ends with the
\* directory deleted and with exit status 0, no descriptor executed
CleanOperation ==
    (args.clean /\ start.installDir /\ pc = "done") =>
        /\ ~installDir
        /\ exitCode = << 0 >>
        /\ log = << >>

\* no release was assembled: create_release was not invoked, the staging
\* tree is as the run found it, no archive was written
NoReleaseAssembled ==
    /\ \A n \in 1..Len(log) : ~ReleaseStartedAt(n)
    /\ pc \notin { "create_release", "install", "archive" }
    /\ release = start.release
    /\ stripped = {}
    /\ archive = NoArchive

NothingBuilt ==
    /\ \A n \in 1..Len(log) : ~IsDepEntry(n)
    /\ installDir = start.installDir
    /\ libs = start.libs
    /\ ~tmpfile

\* what a release can take from the install tree the run found
FromInstall ==
    { << "bin/linux64", f >> : f \in LibFiles(start.libs) }
    \cup { << "lib/external/linux64", f >> : f \in LibFiles(start.libs) }
    \cup { << "include", h >> : h \in IncDirs(start.libs) }

\* C19 as stated: in release-only mode nothing is built, the release is
\* assembled from what the install tree holds, and the process exits 0
ReleaseOnlyExitsZero ==
    (args.only_release /\ ~args.clean) =>
        /\ NothingBuilt
        /\ release \ start.release \subseteq FromInstall
        /\ pc = "done" => exitCode = << 0 >>

\* C19, amended: in release-only mode nothing is built and the release is
\* assembled from what the install tree holds; the process exits 0 when
\* create_release returns, with the archive written, and ends with an
\* uncaught exception, status 1 and no archive, when create_release
\* raises (a declared artifact or header directory is missing from the
\* install tree, or readelf, strip or chrpath cannot be run).
ReleaseOnlyMode ==
    (args.only_release /\ ~args.clean) =>
        /\ NothingBuilt
        /\ release \ start.release \subseteq FromInstall
        /\ pc = "done" =>
              IF archive # NoArchive
              THEN exitCode = << 0 >> /\ archive = release
              ELSE /\ exitCode = << 1 >>
                   /\ output[Len(output)] = << "Traceback" >>
                   /\ \/ \E c \in InstallCalls : c.raised
                      \/ /\ relIdx <= Len(deps)
                         /\ \E h \in Range(get_headers(deps[relIdx])) :
                               h \notin IncDirs(libs)
                      \/ /\ relIdx > Len(deps)
                         /\ stripped = {}
                         /\ \E f \in release : IsSharedLib(f)

\* C19 witness: a release-only run on a complete install tree wrote the
\* archive and ended with status 0
ReleaseOnlyModeWitness ==
    /\ args.only_release /\ ~args.clean
    /\ pc = "done" /\ exitCode = << 0 >>
    /\ \E f \in archive : f[1] = "lib/external/linux64"
    /\ \E f \in archive : f[1] = "include"

\* the files a release run can copy: the declared artifacts, under their
\* declared name or their SONAME, and the declared header directories
Declared ==
    { << "bin/linux64", f >> : f \in LibFiles(Keys) }
    \cup { << "lib/external/linux64", f >> : f \in LibFiles(Keys) }
    \cup { << "include", h >> : h \in IncDirs(Keys) }

\* C20: the archive a release run writes holds only files copied during
\* that run: nothing an earlier release run left in release/ is in it
StagingFresh ==
    archive # NoArchive =>
        /\ archive \subseteq Declared
        /\ archive \cap (start.release \ Declared) = {}

\* the files strip and chrpath were run on
StripRunOn == { s.file : s \in stripped }

\* create_release copies, then strips, then archives: strip and chrpath run
\* only once every descriptor's files are copied, on what is then in the
\* staging tree, and the archive is made after them, of that same tree
PhasesInOrder ==
    /\ stripped # {} => pc \in { "archive", "done" } /\ relIdx > Len(deps)
    /\ pc = "archive" => StripRunOn = { f \in release : IsSharedLib(f) }
    /\ archive # NoArchive =>
          /\ pc = "done"
          /\ archive = release
          /\ StripRunOn = { f \in release : IsSharedLib(f) }

\* C24 as stated: the phases are in order, and when the archive is made
\* every shared library in the staging tree has had its symbols stripped
\* and its rpath removed
StrippedWhenArchived ==
    /\ PhasesInOrder
    /\ archive # NoArchive =>
          \A f \in release :
              IsSharedLib(f) => [ file |-> f, ok |-> TRUE ] \in stripped

\* C26: when download() of a descriptor has returned failure, the
\* descriptor's source directory does not exist, so that the next run
\* downloads again
FailedDownloadLeavesNoSource ==
    \A n \in 1..Len(log) :
      (log[n].stage = "download" /\ log[n].res = "fail") =>
          SrcDir(log[n].dep) \notin repos

\* what execute() prints when a stage returned failure
FailureMessage(stage) ==
    CASE stage = "download"      -> << "Download failed!" >>
      [] stage = "apply_patches" -> << "Failed to apply patches" >>
      [] stage = "configure"     -> << "Configure failed!" >>
      [] stage = "build"         -> << "Build failed!" >>

Printed(line) == \E n \in 1..Len(output) : output[n] = line

\* C21: when a stage of a descriptor failed, by returning failure or by
\* raising, the run ends with a non-zero status, and the output names the
\* stage that failed and the key of the descriptor
FailureReported ==
    \A n \in 1..Len(log) :
      (pc = "done" /\ log[n].stage \in StageNames /\ log[n].res # "ok") =>
        /\ exitCode = << 1 >>
        /\ Printed(FailureMessage(log[n].stage))
        /\ Printed(<< "Build failed for", log[n].dep >>)

(***************************************************************************)
(* SpecWorkDir: `with WorkDir(dir)` blocks, nested up to MaxNesting deep.  *)
(* A block is left by running off its end, by a return inside it, or by    *)
(* an exception inside it; a return or an exception leaves every block it  *)
(* crosses, innermost first.  Python calls __exit__ on each of them.       *)
(***************************************************************************)
MaxNesting == 3

Dirs == { StartDir, get_top, ReposDir } \cup { SrcDir(d) : d \in Keys }

\* __exit__ of the n innermost blocks, innermost first
RECURSIVE Unwind(_, _, _)
Unwind(stack, dir_now, n) ==
    IF n = 0 THEN [ saved |-> stack, cwd |-> dir_now ]
    ELSE LET out == WorkDirExit(stack, dir_now)
         IN  Unwind(out.saved, out.cwd, n - 1)

WdInit ==
    /\ cwd \in { StartDir, get_top }
    /\ saved = << >>
    /\ GhostIdle
    /\ MainIdle
    /\ DlIdle
    /\ PkgIdle
    /\ CmdIdle
    /\ PatchIdle

\* lines 116-119: with WorkDir(dir): entered
WdEnter ==
    /\ Len(saved) < MaxNesting
    /\ \E dir \in Dirs :
         LET in == WorkDirEnter(saved, cwd, dir)
         IN  /\ cwd' = in.cwd
             /\ saved' = in.saved
    /\ entered' = Append(entered, cwd)
    /\ UNCHANGED << lastExit, mainVars, dlVars, pkgVars, cmdVars, patchVars >>

\* lines 122-123: the blocks left by one completion, return or exception
WdLeave ==
    /\ Len(saved) > 0
    /\ \E kind \in { "normal", "return", "raise" } :
       \E n \in 1..Len(saved) :
         /\ kind = "normal" => n = 1
         /\ LET out == Unwind(saved, cwd, n)
            IN  /\ cwd' = out.cwd
                /\ saved' = out.saved
         /\ entered' = SubSeq(entered, 1, Len(entered) - n)
         /\ lastExit' = << kind, n >>
    /\ UNCHANGED << mainVars, dlVars, pkgVars, cmdVars, patchVars >>

WdNext == WdEnter \/ WdLeave

SpecWorkDir == WdInit /\ [][WdNext]_vars

\* C4: whenever blocks are left, on any of the three exit paths and at
\* any nesting depth, the working directory is again the one the process
\* had just before the outermost of the blocks left was entered; with no
\* block open it is the directory the process started in.
WorkDirRestores ==
    [][ Len(saved') < Len(saved) => cwd' = entered[Len(saved') + 1] ]_vars

\* C4 witness: an exception crossed two nested blocks entered from
\* different directories, and the working directory is back at the start
WorkDirRestoresWitness ==
    /\ lastExit = << "raise", 2 >>
    /\ saved = << >>
    /\ cwd = StartDir

\* execute() and download_and_extract() as main() uses them: outside an
\* execute() call the process is in the top directory, with no block open
ExecuteLeavesCwd ==
    pc \in { "loop", "execute", "download", "returned", "create_release",
             "install", "archive", "done" } =>
        cwd = get_top /\ saved = << >>

(***************************************************************************)
(* SpecCmds: Dependency._execute_cmds, called again and again with any     *)
(* batch of up to MaxCmds commands and any env override.                   *)
(* The verbose echo and the quiet capture change no state and are left     *)
(* out.                                                                    *)
(***************************************************************************)
MaxCmds == 2

CmdNames == { "./autogen.sh", "./configure", "make" }

Batches == UNION { [ 1..n -> CmdNames ] : n \in 0..MaxCmds }

\* what subprocess.run can do: the process exits 0, exits non-zero, or
\* the program cannot be started and subprocess.run raises
RunOutcomes == { "zero", "nonzero", "notfound" }

OverrideKeys == { "CC", "CFLAGS" }

OverrideValues(key) ==
    CASE key = "CC"     -> { "clang", "tcc" }
      [] key = "CFLAGS" -> { "-fPIC" }

\* the env= arguments: none, or a dict over some of the override keys
KwargsChoices ==
    { [ hasEnv |-> FALSE, env |-> << >> ] } \cup
    { [ hasEnv |-> TRUE, env |-> e ] :
        e \in UNION { { f \in [ K -> { "clang", "tcc", "-fPIC" } ] :
                          \A key \in K : f[key] \in OverrideValues(key) } :
                      K \in SUBSET OverrideKeys } }

\* f'{get_install_dir()}/bin:{os.getenv("PATH")}'
InstallBinThen(path) ==
    CASE path = "/usr/bin" -> "top/install/bin:/usr/bin"
      [] path = "/bin"     -> "top/install/bin:/bin"

get_global_env(env) ==
    [ CC |-> "gcc", CXX |-> "g++", PKG_CONFIG |-> "pkg-config --static",
      PATH |-> InstallBinThen(env.PATH),
      PKG_CONFIG_PATH |-> "top/install/lib/pkgconfig",
      HOME |-> env.HOME ]

\* a plausible slip: the override is applied only where the base has no
\* value (dict.setdefault instead of dict.update)
ComposeEnvBaseWins(base, kw) ==
    IF ~kw.hasEnv THEN base
    ELSE [ key \in DOMAIN base \cup DOMAIN kw.env |->
             IF key \in DOMAIN base THEN base[key] ELSE kw.env[key] ]

\* lines 276-278: e = get_global_env(); e.update(kwargs['env'])
ComposeEnv(base, kw) ==
    IF ~kw.hasEnv THEN base
    ELSE [ key \in DOMAIN base \cup DOMAIN kw.env |->
             IF key \in DOMAIN kw.env THEN kw.env[key] ELSE base[key] ]

\* a plausible slip: the exit status is not looked at
BailsNever(rc) == FALSE

\* line 281: .returncode != 0
Bails(rc) == rc = "nonzero"

CmdInit ==
    /\ environ \in [ PATH : { "/usr/bin", "/bin" }, HOME : { "/root" } ]
    /\ cmds = << >>
    /\ kwargs = [ hasEnv |-> FALSE, env |-> << >> ]
    /\ cmdIdx = 1
    /\ launched = << >>
    /\ cmdRet = "idle"
    /\ earlier = {}
    /\ cwd = get_top
    /\ saved = << >>
    /\ GhostIdle
    /\ MainIdle
    /\ DlIdle
    /\ PkgIdle
    /\ PatchIdle

\* the <<key, value>> pairs of the env= argument
Overrides(kw) == { << key, kw.env[key] >> : key \in DOMAIN kw.env }

\* a call of _execute_cmds
CmdCall ==
    /\ cmdRet # "running"
    /\ cmds' \in Batches
    /\ kwargs' \in KwargsChoices
    /\ earlier' = earlier \cup Overrides(kwargs)
    /\ cmdIdx' = 1
    /\ launched' = << >>
    /\ cmdRet' = "running"
    /\ UNCHANGED << environ, mainVars, dlVars, pkgVars, wdVars, ghostVars, patchVars >>

\* a plausible slip: the overrides are put into os.environ for the child
\* to inherit
CmdRunExportsOverrides ==
    /\ cmdRet = "running"
    /\ cmdIdx <= Len(cmds)
    /\ \E rc \in RunOutcomes :
         LET e == ComposeEnv(get_global_env(environ), kwargs)
         IN  /\ launched' = Append(launched,
                     [ cmd |-> cmds[cmdIdx], env |-> e, rc |-> rc ])
             /\ IF rc = "notfound"
                THEN cmdRet' = "raise" /\ UNCHANGED cmdIdx
                ELSE IF Bails(rc)
                THEN cmdRet' = "fail" /\ UNCHANGED cmdIdx
                ELSE cmdIdx' = cmdIdx + 1 /\ UNCHANGED cmdRet
    /\ environ' = ComposeEnv(environ, kwargs)
    /\ UNCHANGED << cmds, kwargs, earlier, mainVars, dlVars, pkgVars, wdVars, ghostVars,
                    patchVars >>

\* lines 275-282: one iteration of `for a in args`
CmdRun ==
    /\ cmdRet = "running"
    /\ cmdIdx <= Len(cmds)
    /\ \E rc \in RunOutcomes :
         LET e == ComposeEnv(get_global_env(environ), kwargs)
         IN  /\ launched' = Append(launched,
                     [ cmd |-> cmds[cmdIdx], env |-> e, rc |-> rc ])
             /\ IF rc = "notfound"
                THEN cmdRet' = "raise" /\ UNCHANGED cmdIdx
                ELSE IF Bails(rc)
                THEN cmdRet' = "fail" /\ UNCHANGED cmdIdx
                ELSE cmdIdx' = cmdIdx + 1 /\ UNCHANGED cmdRet
    /\ UNCHANGED << environ, cmds, kwargs, earlier, mainVars, dlVars, pkgVars, wdVars,
                    ghostVars, patchVars >>

\* line 283: return True
CmdDone ==
    /\ cmdRet = "running"
    /\ cmdIdx > Len(cmds)
    /\ cmdRet' = "ok"
    /\ UNCHANGED << environ, cmds, kwargs, cmdIdx, launched, earlier,
                    mainVars, dlVars, pkgVars, wdVars, ghostVars, patchVars >>

CmdNext == CmdCall \/ CmdRun \/ CmdDone

SpecCmds == CmdInit /\ [][CmdNext]_vars

\* C5: the commands launched are the first commands of the batch, in the
\* batch's order; a command that exits non-zero is the last one launched
\* and the call returns failure; the call returns success only when every
\* command of the batch was launched and exited zero.
ExecuteCmdsFailFast ==
    /\ Len(launched) <= Len(cmds)
    /\ \A n \in 1..Len(launched) :
         /\ launched[n].cmd = cmds[n]
         /\ launched[n].rc = "nonzero" => n = Len(launched) /\ cmdRet = "fail"
         /\ n < Len(launched) => launched[n].rc = "zero"
    /\ cmdRet = "fail" =>
         Len(launched) >= 1 /\ launched[Len(launched)].rc = "nonzero"
    /\ cmdRet = "ok" =>
         /\ Len(launched) = Len(cmds)
         /\ \A n \in 1..Len(launched) : launched[n].rc = "zero"

\* C5 witness: the first of two commands exited non-zero, the second
\* was never launched
ExecuteCmdsFailFastWitness ==
    /\ cmdRet = "fail"
    /\ Len(cmds) = 2
    /\ Len(launched) = 1
    /\ cmds[1] # cmds[2]

\* C6: the environment of every launched command is the base environment
\* overlaid with the call's overrides: an overridden key has the override
\* value, every other base key has its base value, there is no other key;
\* without overrides it is the base environment.
EnvMerge ==
    \A n \in 1..Len(launched) :
      LET e    == launched[n].env
          base == get_global_env(environ)
      IN  IF ~kwargs.hasEnv THEN e = base
          ELSE /\ DOMAIN e = DOMAIN base \cup DOMAIN kwargs.env
               /\ \A key \in DOMAIN kwargs.env : e[key] = kwargs.env[key]
               /\ \A key \in DOMAIN base \ DOMAIN kwargs.env :
                    e[key] = base[key]

\* C6 witness: a command ran with CC overridden and CFLAGS added
EnvMergeWitness ==
    /\ Len(launched) >= 1
    /\ kwargs.hasEnv
    /\ DOMAIN kwargs.env = { "CC", "CFLAGS" }
    /\ launched[1].env.CC = "clang"
    /\ launched[1].env.CFLAGS = "-fPIC"
    /\ launched[1].env.CXX = "g++"

\* environment `e` has value `v` under key `key`
Holds(e, key, v) == key \in DOMAIN e /\ e[key] = v

\* C25: overrides do not leak from one call to a later one: the
\* environment of a launched command holds a value that an earlier call
\* gave as an override only if its own call gives that override too, and
\* os.environ never holds an override, of an earlier call or of this one
NoEnvLeak ==
    /\ DOMAIN environ = { "PATH", "HOME" }
    /\ \A o \in earlier \cup Overrides(kwargs) : ~Holds(environ, o[1], o[2])
    /\ \A n \in 1..Len(launched) : \A o \in earlier :
          Holds(launched[n].env, o[1], o[2]) => o \in Overrides(kwargs)

\* C25 witness: after a call that overrode CC and added CFLAGS, a call
\* without overrides launched a command with the base CC and no CFLAGS
NoEnvLeakWitness ==
    /\ { << "CC", "clang" >>, << "CFLAGS", "-fPIC" >> } \subseteq earlier
    /\ ~kwargs.hasEnv
    /\ Len(launched) >= 1
    /\ launched[1].env.CC = "gcc"
    /\ "CFLAGS" \notin DOMAIN launched[1].env

(***************************************************************************)
(* SpecPatch: Dependency._apply_patch and _apply_patches, called again and *)
(* again on one source tree with any list of up to MaxPatches patches; a   *)
(* list of one patch is also the call _apply_patch(p).                     *)
(*                                                                         *)
(* The tree is a file of two lines.  A patch is a set of hunks, each       *)
(* replacing the content `old` of one line by `new`.  `git apply` applies  *)
(* a patch when every hunk finds its `old`, and otherwise changes nothing  *)
(* and exits non-zero; `git apply --reverse --check` exits zero when every *)
(* hunk finds its `new`, and changes nothing.                              *)
(***************************************************************************)
MaxPatches == 2

Lines == { 1, 2 }

Content == { "a", "b", "c" }

Trees == [ Lines -> Content ]

PatchNames == { "line1-a-b.patch", "line1-b-c.patch", "both-a-b.patch" }

Hunks(patch) ==
    CASE patch = "line1-a-b.patch" -> { [ line |-> 1, old |-> "a", new |-> "b" ] }
      [] patch = "line1-b-c.patch" -> { [ line |-> 1, old |-> "b", new |-> "c" ] }
      [] patch = "both-a-b.patch"  -> { [ line |-> 1, old |-> "a", new |-> "b" ],
                                        [ line |-> 2, old |-> "a", new |-> "b" ] }

PatchLists == UNION { [ 1..n -> PatchNames ] : n \in 0..MaxPatches }

Applies(patch, t) == \A h \in Hunks(patch) : t[h.line] = h.old

ReverseApplies(patch, t) == \A h \in Hunks(patch) : t[h.line] = h.new

Forward(patch, t) ==
    [ l \in DOMAIN t |->
        IF \E h \in Hunks(patch) : h.line = l
        THEN (CHOOSE h \in Hunks(patch) : h.line = l).new
        ELSE t[l] ]

\* ['git', 'apply', patch]
GitApply(patch, t) ==
    IF Applies(patch, t) THEN [ ok |-> TRUE, tree |-> Forward(patch, t) ]
    ELSE [ ok |-> FALSE, tree |-> t ]

\* a plausible slip: --reverse is left out of the check
GitCheckForward(patch, t) == [ ok |-> Applies(patch, t), tree |-> t ]

\* ['git', 'apply', '--reverse', '--check', patch]
GitApplyReverseCheck(patch, t) == [ ok |-> ReverseApplies(patch, t), tree |-> t ]

PatchInit ==
    /\ tree \in Trees
    /\ patches = << >>
    /\ patchIdx = 1
    /\ patchPc = "idle"
    /\ patchRet = FALSE
    /\ treeBefore = << >>
    /\ gitLog = << >>
    /\ prevCall = NoCall
    /\ cwd = get_top
    /\ saved = << >>
    /\ GhostIdle
    /\ MainIdle
    /\ DlIdle
    /\ PkgIdle
    /\ CmdIdle

GitLogged(cmd, r) ==
    Append(gitLog, [ cmd |-> cmd, idx |-> patchIdx, patch |-> patches[patchIdx],
                     before |-> tree, after |-> r.tree, ok |-> r.ok ])

\* a call of _apply_patches(list), or of _apply_patch(list[1])
PatchCall ==
    /\ patchPc \in { "idle", "returned" }
    /\ patches' \in PatchLists
    /\ prevCall' = IF patchPc = "idle" THEN prevCall
                   ELSE [ patches |-> patches, before |-> treeBefore,
                          after |-> tree, ret |-> patchRet ]
    /\ treeBefore' = tree
    /\ gitLog' = << >>
    /\ patchIdx' = 1
    /\ IF patches' = << >>
       THEN patchPc' = "returned" /\ patchRet' = TRUE
       ELSE patchPc' = "check" /\ UNCHANGED patchRet
    /\ UNCHANGED << tree, mainVars, dlVars, pkgVars, wdVars, ghostVars, cmdVars >>

\* a plausible slip: the loop goes on after a failure and returns what the
\* last patch returned
PatchLoopKeepsGoing(ok) ==
    IF patchIdx = Len(patches)
    THEN patchPc' = "returned" /\ patchRet' = ok /\ UNCHANGED patchIdx
    ELSE patchPc' = "check" /\ patchIdx' = patchIdx + 1 /\ UNCHANGED patchRet

\* lines 251-254: _apply_patches after _apply_patch(p) returned `ok`
PatchLoop(ok) ==
    IF ~ok
    THEN patchPc' = "returned" /\ patchRet' = FALSE /\ UNCHANGED patchIdx
    ELSE IF patchIdx = Len(patches)
    THEN patchPc' = "returned" /\ patchRet' = TRUE /\ UNCHANGED patchIdx
    ELSE patchPc' = "check" /\ patchIdx' = patchIdx + 1 /\ UNCHANGED patchRet

\* a plausible slip: the forward apply is run without the check before it
ReverseCheckSkipped ==
    /\ patchPc = "check"
    /\ patchPc' = "apply"
    /\ UNCHANGED << tree, patches, patchIdx, patchRet, treeBefore, gitLog,
                    prevCall, mainVars, dlVars, pkgVars, wdVars, ghostVars, cmdVars >>

\* a plausible slip: the check is run forward
ReverseCheckForward ==
    /\ patchPc = "check"
    /\ LET r == GitCheckForward(patches[patchIdx], tree)
       IN  /\ gitLog' = GitLogged("check", r)
           /\ tree' = r.tree
           /\ IF r.ok
              THEN PatchLoop(TRUE)
              ELSE patchPc' = "apply" /\ UNCHANGED << patchIdx, patchRet >>
    /\ UNCHANGED << patches, treeBefore, prevCall, mainVars, dlVars, pkgVars, wdVars,
                    ghostVars, cmdVars >>

\* lines 239-240: the reverse check, and `return True` when it succeeds
ReverseCheck ==
    /\ patchPc = "check"
    /\ LET r == GitApplyReverseCheck(patches[patchIdx], tree)
       IN  /\ gitLog' = GitLogged("check", r)
           /\ tree' = r.tree
           /\ IF r.ok
              THEN PatchLoop(TRUE)
              ELSE patchPc' = "apply" /\ UNCHANGED << patchIdx, patchRet >>
    /\ UNCHANGED << patches, treeBefore, prevCall, mainVars, dlVars, pkgVars, wdVars,
                    ghostVars, cmdVars >>

\* a plausible slip: the result of the forward apply is dropped
ForwardApplyResultDropped ==
    /\ patchPc = "apply"
    /\ LET r == GitApply(patches[patchIdx], tree)
       IN  /\ gitLog' = GitLogged("apply", r)
           /\ tree' = r.tree
           /\ PatchLoop(TRUE)
    /\ UNCHANGED << patches, treeBefore, prevCall, mainVars, dlVars, pkgVars, wdVars,
                    ghostVars, cmdVars >>

\* lines 241-243: the forward apply, whose result _apply_patch returns
ForwardApply ==
    /\ patchPc = "apply"
    /\ LET r == GitApply(patches[patchIdx], tree)
       IN  /\ gitLog' = GitLogged("apply", r)
           /\ tree' = r.tree
           /\ PatchLoop(r.ok)
    /\ UNCHANGED << patches, treeBefore, prevCall, mainVars, dlVars, pkgVars, wdVars,
                    ghostVars, cmdVars >>

PatchNext == PatchCall \/ ReverseCheck \/ ForwardApply

SpecPatch == PatchInit /\ [][PatchNext]_vars

\* _apply_patch(P) was called twice in a row, and both calls are over
SamePatchTwice ==
    /\ patchPc = "returned"
    /\ Len(patches) = 1
    /\ prevCall.patches = patches

\* C7 as stated: for any patch and any tree, two calls of _apply_patch(P)
\* in a row both return success and the second leaves the tree as the
\* first left it
PatchIdempotent ==
    SamePatchTwice => prevCall.ret /\ patchRet /\ tree = prevCall.after

\* C7, amended: when _apply_patch(P) returned success, calling it again
\* returns success too, launches no forward apply, and leaves the tree as
\* the first call left it.  (On a tree where P is neither applied nor
\* appliable the first call returns failure.)
PatchIdempotentOnceApplied ==
    (SamePatchTwice /\ prevCall.ret) =>
        /\ patchRet
        /\ tree = prevCall.after
        /\ \A n \in 1..Len(gitLog) : gitLog[n].cmd = "check"

\* C7 witness: the first call applied the patch, the second found it
PatchIdempotentOnceAppliedWitness ==
    /\ SamePatchTwice
    /\ prevCall.ret /\ patchRet
    /\ prevCall.before # prevCall.after
    /\ tree = prevCall.after

\* the forward apply is never launched on a tree that has the patch
NeverAppliedTwice ==
    \A n \in 1..Len(gitLog) :
        gitLog[n].cmd = "apply" =>
            ~ReverseApplies(gitLog[n].patch, gitLog[n].before)

\* the tree with patch p applied, were it not already
Ensured(p, t) == IF ReverseApplies(p, t) THEN t ELSE Forward(p, t)

RECURSIVE EnsuredAll(_, _)
EnsuredAll(ps, t) ==
    IF ps = << >> THEN t ELSE EnsuredAll(Tail(ps), Ensured(Head(ps), t))

\* C8 as stated: no forward apply on a tree that has the patch, and a
\* call that returns failure leaves the tree as it was before the call
PatchNeverTwiceNorPartial ==
    /\ NeverAppliedTwice
    /\ (patchPc = "returned" /\ ~patchRet) => tree = treeBefore

\* C8, amended: no forward apply is launched on a tree that has the
\* patch; a call of _apply_patch that returns failure leaves the tree as
\* it was; a call of _apply_patches that returns failure leaves the tree
\* with the patches before the failing one applied, each as a whole, and
\* with nothing of the failing patch or of the patches after it.
PatchNeverTwiceFailingPatchWhole ==
    /\ NeverAppliedTwice
    /\ (patchPc = "returned" /\ ~patchRet) =>
          /\ tree = EnsuredAll(SubSeq(patches, 1, patchIdx - 1), treeBefore)
          /\ Len(patches) = 1 => tree = treeBefore
          /\ Len(gitLog) >= 2
          /\ gitLog[Len(gitLog)].before = tree
          /\ gitLog[Len(gitLog) - 1].before = tree

\* C8 witness: the first patch of a list was applied, the second one,
\* half present in the tree, failed
PatchNeverTwiceFailingPatchWholeWitness ==
    /\ patchPc = "returned" /\ ~patchRet
    /\ Len(patches) = 2 /\ patchIdx = 2
    /\ tree # treeBefore

\* C9: every _apply_patch starts with the reverse check, which changes
\* nothing; when the check succeeds no forward apply is launched for that
\* patch and it counts as success; when it fails the forward apply is
\* launched once, and its result is what _apply_patch returns.
CheckThenApply ==
    /\ \A n \in 1..Len(gitLog) :
         LET g == gitLog[n] IN
           /\ n = 1 => g.cmd = "check" /\ g.idx = 1
           /\ g.cmd = "check" => g.after = g.before
           /\ g.cmd = "apply" =>
                 /\ n > 1
                 /\ gitLog[n - 1].cmd = "check"
                 /\ gitLog[n - 1].idx = g.idx
                 /\ ~gitLog[n - 1].ok
           /\ (g.cmd = "check" /\ g.ok /\ n < Len(gitLog)) =>
                 gitLog[n + 1].cmd = "check" /\ gitLog[n + 1].idx = g.idx + 1
           /\ (g.cmd = "check" /\ ~g.ok) =>
                 IF n < Len(gitLog)
                 THEN gitLog[n + 1].cmd = "apply" /\ gitLog[n + 1].idx = g.idx
                 ELSE patchPc = "apply"
           /\ (g.cmd = "apply" /\ n < Len(gitLog)) =>
                 /\ g.ok
                 /\ gitLog[n + 1].cmd = "check"
                 /\ gitLog[n + 1].idx = g.idx + 1
    /\ (patchPc = "returned" /\ Len(patches) >= 1) =>
          /\ gitLog # << >>
          /\ patchRet = gitLog[Len(gitLog)].ok
    /\ (patchPc = "returned" /\ Len(patches) = 1 /\ gitLog[1].ok) =>
          Len(gitLog) = 1 /\ patchRet /\ tree = treeBefore

\* C9 witness: the check failed and the forward apply failed too
CheckThenApplyWitness ==
    /\ patchPc = "returned" /\ ~patchRet
    /\ Len(patches) = 1
    /\ Len(gitLog) = 2
    /\ gitLog[2].cmd = "apply" /\ ~gitLog[2].ok

\* _apply_patch returned success for the k-th patch of the list: its
\* reverse check or its forward apply exited zero
PatchSucceeded(k) ==
    \E n \in 1..Len(gitLog) : gitLog[n].idx = k /\ gitLog[n].ok

\* _apply_patch returned failure for the k-th patch: its forward apply
\* exited non-zero
PatchFailed(k) ==
    \E n \in 1..Len(gitLog) :
        gitLog[n].idx = k /\ gitLog[n].cmd = "apply" /\ ~gitLog[n].ok

\* C23: _apply_patches launches the commands of the patches in list order,
\* a patch's only after every patch before it returned success, and none
\* after a patch returned failure; it returns failure when a patch did,
\* and success exactly when every patch of the list returned success
PatchesInOrderFailFast ==
    /\ \A n \in 1..Len(gitLog) :
          /\ gitLog[n].idx \in 1..Len(patches)
          /\ gitLog[n].patch = patches[gitLog[n].idx]
          /\ \A j \in 1..(gitLog[n].idx - 1) : PatchSucceeded(j)
          /\ \A m \in 1..(n - 1) : gitLog[m].idx <= gitLog[n].idx
          /\ PatchFailed(gitLog[n].idx) =>
                \A m \in 1..Len(gitLog) : gitLog[m].idx <= gitLog[n].idx
    /\ patchPc = "returned" =>
          /\ patchRet = (\A k \in 1..Len(patches) : PatchSucceeded(k))
          /\ ~patchRet = (\E k \in 1..Len(patches) : PatchFailed(k))

\* C23 witness: the first of two patches failed, and the call returned
\* failure without a command for the second
PatchesInOrderFailFastWitness ==
    /\ patchPc = "returned" /\ ~patchRet
    /\ Len(patches) = 2
    /\ PatchFailed(1)
    /\ \A n \in 1..Len(gitLog) : gitLog[n].idx = 1

(***************************************************************************)
(* SpecDownload: one call download_and_extract(url, type, 'mp3lame'), for  *)
(* any archive kind, any archive at the url, with or without the target    *)
(* directory and a download file left by an earlier run.  The call is made *)
(* from the top directory, as Dependency.execute makes it.                 *)
(***************************************************************************)
\* the kinds the function knows, and one it does not
DlKinds == TarKinds \cup { "zip", "rar" }

\* archives, as sets of entries: two wrapped in a single root folder, one
\* that is not
Archives ==
    { { << "lame-3.100", "configure" >>,
        << "lame-3.100", "libmp3lame", "lame.c" >> },
      { << "pkg", "README" >> },
      { << "README" >>, << "src", "main.c" >> } }

DlPath == "mp3lame"

DlDst == Append(ReposDir, DlPath)

\* what the target directory can hold before the call
OldFiles == { DlDst \o << "old.c" >> }

DlInit ==
    /\ dlType \in DlKinds
    /\ dlArchive \in Archives
    /\ dlRet = "idle"
    /\ dlExc = NoException
    /\ repos \in { {}, { DlDst } }
    /\ srcFiles \in (IF DlDst \in repos THEN { {}, OldFiles } ELSE { {} })
    /\ tmpfile \in BOOLEAN
    /\ cwd = get_top
    /\ saved = << >>
    /\ RunIdle
    /\ GhostIdle
    /\ CmdIdle
    /\ PatchIdle
    /\ PkgIdle

\* the entries the extractor wrote before it exited
Written(extract, entries) ==
    CASE extract = "ok"           -> { entries }
      [] extract = "fail_partial" -> SUBSET entries \ { entries }
      [] OTHER                    -> { {} }

DlCall ==
    /\ dlRet = "idle"
    /\ \E curl \in CurlOutcomes, extract \in ExtractOutcomes :
         LET r == download_and_extract(dlType, DlPath, curl, extract,
                                       saved, cwd, repos, tmpfile)
         IN  /\ dlRet' = r.ret
             /\ dlExc' = r.exc
             /\ repos' = r.repos
             /\ tmpfile' = r.tmpfile
             /\ cwd' = r.cwd
             /\ saved' = r.saved
             /\ \E w \in Written(extract, dlArchive) :
                  srcFiles' = IF r.extracts
                              THEN srcFiles \cup Extracted(dlType, DlDst, w)
                              ELSE srcFiles
    /\ UNCHANGED << dlType, dlArchive, ghostVars, cmdVars, patchVars,
                    pkgVars >>
    /\ UNCHANGED << args, pc, depIdx, relIdx, ret, installDir, libs, release,
                    stripped, archive, log, output, exitCode, touched, start,
                    installs >>

DlNext == DlCall

SpecDownload == DlInit /\ [][DlNext]_vars

\* C15: once download_and_extract has ended, by returning success, by
\* returning failure or by raising, download-1.<type> does not exist
TmpFileRemoved == dlRet # "idle" => ~tmpfile

\* every entry of the archive sits under one root folder
SingleRoot(entries) == \A e, f \in entries : Len(e) > 1 /\ e[1] = f[1]

\* C16: after a successful call on an archive wrapped in a single root
\* folder, into a directory that held nothing, the directory holds each
\* entry with exactly its first path component removed, whether the kind
\* is of the tar family or zip
ArchiveNormalized ==
    (dlRet = "ok" /\ SingleRoot(dlArchive) /\ srcFiles \cap OldFiles = {}) =>
        srcFiles = { DlDst \o Tail(e) : e \in dlArchive }

\* C22: a call with an archive kind outside tar.gz, tgz, tar, tar.bz2 and
\* zip ends in an assertion failure, and never returns success or failure,
\* whatever curl did
UnsupportedKindAsserts ==
    (dlRet # "idle" /\ dlType \notin TarKinds \cup { "zip" }) =>
        dlRet = "raise" /\ dlExc = "AssertionError"

(***************************************************************************)
(* SpecPkg: add_pc_lib(pc, libs) called up to MaxCalls times on one        *)
(* pkg-config file with the same flags, as Dep_Xiph.build does on every    *)
(* run.  A line is the sequence of its pieces: words, single spaces and    *)
(* the newline that ends it.  As readlines() returns them, every line but  *)
(* the last ends with a newline, and the last may or may not.              *)
(***************************************************************************)
MaxCalls == 2

MaxPcLines == 2

PcLines ==
    { << "Name:", " ", "ogg", "\n" >>,
      << "Libs:", " ", "-L${libdir}", " ", "-logg", "\n" >>,
      << "Libs:", " ", "-logg", " ", "-lm", "\n" >>,
      << "Libs.private:", " ", "-lm", "\n" >>,
      << "Libs:", " ", "-L${libdir}", " ", "-logg" >>,
      << "Libs:", " ", "-logg", " ", "-lm" >>,
      << "Cflags:", " ", "-I${includedir}" >> }

PcFiles ==
    { f \in UNION { [ 1..n -> PcLines ] : n \in 1..MaxPcLines } :
        \A i \in 1..(Len(f) - 1) : f[i][Len(f[i])] = "\n" }

\* the flag lists Dep_Xiph.build passes
FlagLists == { << "-lm" >>, << "-logg", "-lm" >> }

\* ' '.join(libs)
RECURSIVE Join(_)
Join(flags) ==
    IF Len(flags) <= 1 THEN flags
    ELSE << flags[1], " " >> \o Join(Tail(flags))

\* str.startswith, for a prefix that is one piece
StartsWith(line, piece) == Len(line) >= 1 /\ line[1] = piece

\* str.endswith
EndsWith(line, suffix) ==
    /\ Len(line) >= Len(suffix)
    /\ SubSeq(line, Len(line) - Len(suffix) + 1, Len(line)) = suffix

Whitespace == { " ", "\n" }

\* str.strip
RECURSIVE Strip_(_)
Strip_(line) ==
    IF line = << >> THEN line
    ELSE IF line[1] \in Whitespace THEN Strip_(Tail(line))
    ELSE IF line[Len(line)] \in Whitespace
    THEN Strip_(SubSeq(line, 1, Len(line) - 1))
    ELSE line

\* lines 96-107: the lines written back, and the value returned
add_pc_lib(lines, flags) ==
    LET subst == Join(flags)
    IN  [ lines |-> [ i \in DOMAIN lines |->
                        IF StartsWith(lines[i], "Libs:")
                           /\ ~EndsWith(lines[i], subst)
                        THEN Strip_(lines[i]) \o << " " >> \o subst \o << "\n" >>
                        ELSE lines[i] ],
          ret |-> TRUE ]

PkgInit ==
    /\ pkgFile \in PcFiles
    /\ pkgLibs \in FlagLists
    /\ pkgHist = << pkgFile >>
    /\ pkgRets = << >>
    /\ cwd = get_top
    /\ saved = << >>
    /\ GhostIdle
    /\ MainIdle
    /\ DlIdle
    /\ CmdIdle
    /\ PatchIdle

\* a call add_pc_lib(pc, libs)
PkgCall ==
    /\ Len(pkgRets) < MaxCalls
    /\ LET r == add_pc_lib(pkgFile, pkgLibs)
       IN  /\ pkgFile' = r.lines
           /\ pkgHist' = Append(pkgHist, r.lines)
           /\ pkgRets' = Append(pkgRets, r.ret)
    /\ UNCHANGED << pkgLibs, mainVars, wdVars, ghostVars, cmdVars, patchVars,
                    dlVars >>

PkgNext == PkgCall

SpecPkg == PkgInit /\ [][PkgNext]_vars

\* every call returned True and left alone the lines that do not start
\* with 'Libs:'
OtherLinesKept ==
    /\ \A k \in 1..Len(pkgRets) : pkgRets[k] = TRUE
    /\ \A k \in 1..(Len(pkgHist) - 1) :
         /\ Len(pkgHist[k + 1]) = Len(pkgHist[k])
         /\ \A i \in 1..Len(pkgHist[k]) :
              ~StartsWith(pkgHist[k][i], "Libs:") =>
                  pkgHist[k + 1][i] = pkgHist[k][i]

\* C27: a second call with the same flags leaves the file as the first
\* call left it; no call changes a line that does not start with 'Libs:';
\* every call returns True
AddPcLibIdempotent ==
    /\ OtherLinesKept
    /\ Len(pkgHist) >= 3 => pkgHist[3] = pkgHist[2]

====
